---- MODULE Spec2Model ----
(***************************************************************************)
(* Model of check_materialization.py: the datastack enumerator             *)
(* (get_datastacks_to_check), the per-datastack staleness check            *)
(* (check_materialization), the row formatting (format_row_data) and the   *)
(* audit loop of main.  The remote services (CAVEclient) and the wall      *)
(* clock are the environment: every answer they can give, an exception     *)
(* included, is a nondeterministic input of the step that asks for it.     *)
(***************************************************************************)
EXTENDS Integers, Sequences, FiniteSets, TLC

\* ---------------------------------------------------------------------- state
VARIABLES
  SERVERS_TO_CHECK,     \* line 15: the configured servers, in order
  DATASTACKS_TO_CHECK,  \* line 22: the override list
  now,                  \* the wall clock's date (environment)
  pc,                   \* main's position: start, enumerate, loop, done, aborted
  current_day,          \* line 145
  clock_reads,          \* number of datetime.now() calls made so far
  listed,               \* the listing calls made so far: server and what it answered
  datastacks_to_check,  \* line 131/147
  idx,                  \* position of the loop of line 150 (1-based)
  checked,              \* number of check_materialization calls made so far
  result_table,         \* line 146/176: the rows added so far
  records,              \* per row: the values main held when it added the row
  outcomes,             \* per finished iteration: "Record" or "Omitted"
  response,             \* what the remote answered in the latest iteration
  ret,                  \* the tuple check_materialization returned in the latest iteration
  prev_table,           \* result_table before the latest iteration
  exception,            \* the uncaught exception that ended main, if any
  printed               \* line 179 was reached

vars ==
  << SERVERS_TO_CHECK, DATASTACKS_TO_CHECK, now, pc, current_day, clock_reads,
     listed, datastacks_to_check, idx, checked, result_table, records, outcomes,
     response, ret, prev_table, exception, printed >>

config == << SERVERS_TO_CHECK, DATASTACKS_TO_CHECK >>

loopVars == << idx, checked, result_table, records, outcomes, response, ret, prev_table >>

\* ----------------------------------------------------------------- bounds
\* Version numbers the remote service may report: 1..MaxVersion.
MaxVersion == 2
\* Day ordinals of the wall clock and of timestamps: 0..MaxDay.
MaxDay == 1
\* Longest datastack list a server returns, longest override list.
MaxList == 2

\* ------------------------------------------------------------ value domains
\* Datastack names are strings, modelled as sequences of code points so that
\* Python's lexicographic str order is computed and not assumed.
Names == {<<1>>, <<1, 2>>, <<2>>}

\* line 15-18
Servers == {"https://global.daf-apis.com", "https://globalv1.em.brain.allentech.org"}

Versions == 1..MaxVersion

Days == 0..MaxDay

\* Python's None and a present value, for Optional[...] results.
None == <<>>

Some(v) == <<v>>

\* A datetime is modelled by the day ordinal of its date (the time of day never
\* reaches a row); anything else the service may hand back for a timestamp is
\* Malformed (None, a string...).
Datetimes == [valid : {TRUE}, date : Days]

Malformed == [valid |-> FALSE, date |-> 0]

\* datetime.date(): drops the time of day.
DateOf(dt) == dt.date

\* max() of a Python collection of ints; the caller guards emptiness.
Max(S) == CHOOSE m \in S : \A n \in S : n <= m

\* ------------------------------------------------------ lexicographic sort
\* Python str comparison a < b.
LexLess(a, b) ==
  \E k \in 1..(Len(a) + 1) :
    /\ \A j \in 1..(k - 1) : j <= Len(b) /\ a[j] = b[j]
    /\ \/ k = Len(a) + 1 /\ Len(b) >= k
       \/ k <= Len(a) /\ k <= Len(b) /\ a[k] < b[k]

RECURSIVE InsertSorted(_, _)
InsertSorted(x, s) ==
  IF s = <<>> THEN <<x>>
  ELSE IF LexLess(x, Head(s)) THEN <<x>> \o s
  ELSE <<Head(s)>> \o InsertSorted(x, Tail(s))

RECURSIVE SortedFrom(_, _)
SortedFrom(s, acc) ==
  IF s = <<>> THEN acc ELSE SortedFrom(Tail(s), InsertSorted(Head(s), acc))

\* Python's sorted() on a list of str.
Sorted(s) == SortedFrom(s, <<>>)

\* ------------------------------------------------- the remote service's answers
\* One result of a remote call: it raised, or it returned value.
Raised(default) == [ok |-> FALSE, value |-> default]

Returned(v) == [ok |-> TRUE, value |-> v]

LocalServers == {"https://minnie.microns-daf.com"}

ServerVersionLabels == {"4.30.1"}

\* Everything the remote side can answer during one check_materialization call:
\* whether CAVEclient(datastack) could be built, the host it resolved, and the
\* result of each of the four fetches.
AllResponses ==
  [client_ok : BOOLEAN,
   local_server : LocalServers,
   versions : {Raised({})} \cup {Returned(S) : S \in SUBSET Versions},
   expired : {Raised({})} \cup {Returned(S) : S \in SUBSET Versions},
   timestamp : {Raised(Malformed)} \cup {Returned(t) : t \in Datetimes \cup {Malformed}},
   server_version : {Raised("")} \cup {Returned(l) : l \in ServerVersionLabels}]

\* The statement of the try block that raises, or "none" (lines 49-52).  max()
\* raises ValueError on an empty collection.
FailedStep(r) ==
  IF ~r.versions.ok THEN "get_versions"
  ELSE IF r.versions.value = {} THEN "max_versions"
  ELSE IF ~r.expired.ok THEN "get_versions_expired"
  ELSE IF r.expired.value = {} THEN "max_expired"
  ELSE IF ~r.timestamp.ok THEN "get_timestamp"
  ELSE IF ~r.server_version.ok THEN "server_version"
  ELSE "none"

\* A call that is never made has no answer: the answers after the first failure
\* are fixed to the defaults, so that one behaviour of the code is one response.
Normal(r) ==
  /\ ~r.client_ok => r.versions = Raised({})
  /\ FailedStep(r) \in {"get_versions", "max_versions"} => r.expired = Raised({})
  /\ FailedStep(r) \in {"get_versions", "max_versions", "get_versions_expired", "max_expired"}
       => r.timestamp = Raised(Malformed)
  /\ FailedStep(r) \in {"get_versions", "max_versions", "get_versions_expired", "max_expired",
                        "get_timestamp"}
       => r.server_version = Raised("")

Responses == {r \in AllResponses : Normal(r)}

NoResponse ==
  [client_ok |-> FALSE, local_server |-> CHOOSE s \in LocalServers : TRUE,
   versions |-> Raised({}), expired |-> Raised({}),
   timestamp |-> Raised(Malformed), server_version |-> Raised("")]

\* ------------------------------------------------------ check_materialization
NoTuple ==
  [latest_version |-> None, expected_latest_version |-> None,
   latest_timestamp |-> None, server |-> "", server_version |-> None]

\* check_materialization with an except clause that forgets to reset
\* latest_timestamp.
CheckMaterializationKeepsTimestamp(r) ==
  IF FailedStep(r) = "none"
  THEN [latest_version |-> Some(Max(r.versions.value)),
        expected_latest_version |-> Some(Max(r.expired.value)),
        latest_timestamp |-> Some(r.timestamp.value),
        server |-> r.local_server,
        server_version |-> Some(r.server_version.value)]
  ELSE [latest_version |-> None,
        expected_latest_version |-> None,
        latest_timestamp |-> IF FailedStep(r) = "server_version"
                             THEN Some(r.timestamp.value) ELSE None,
        server |-> r.local_server,
        server_version |-> None]

\* check_materialization with the expired flag on the wrong call.
CheckMaterializationSwapped(r) ==
  IF FailedStep(r) = "none"
  THEN [latest_version |-> Some(Max(r.expired.value)),
        expected_latest_version |-> Some(Max(r.versions.value)),
        latest_timestamp |-> Some(r.timestamp.value),
        server |-> r.local_server,
        server_version |-> Some(r.server_version.value)]
  ELSE [latest_version |-> None,
        expected_latest_version |-> None,
        latest_timestamp |-> None,
        server |-> r.local_server,
        server_version |-> None]

\* Lines 48-64, for a client that was built: the returned tuple.  Any exception
\* of the try block resets the four fetched values together.
CheckMaterialization(r) ==
  IF FailedStep(r) = "none"
  THEN [latest_version |-> Some(Max(r.versions.value)),
        expected_latest_version |-> Some(Max(r.expired.value)),
        latest_timestamp |-> Some(r.timestamp.value),
        server |-> r.local_server,
        server_version |-> Some(r.server_version.value)]
  ELSE [latest_version |-> None,
        expected_latest_version |-> None,
        latest_timestamp |-> None,
        server |-> r.local_server,
        server_version |-> None]

\* ------------------------------------------------------------ format_row_data
\* lines 37-40, 67-69 and the style string of line 75
GetStyleConfig(success) == IF success THEN "green" ELSE "bold red"

\* lines 72-78
CreateStyledText(value, style) == [text |-> value, style |-> style]

\* Days Old computed against the clock at the time the row is formatted.
DaysOldRereadsClock(current_day_, latest_timestamp) == now - DateOf(latest_timestamp)

\* line 95: (current_day - latest_timestamp.date()).days
DaysOld(current_day_, latest_timestamp) == current_day_ - DateOf(latest_timestamp)

\* line 98: strftime("%Y-%m-%d") of the date; day ordinal 0 is 2024-02-28.
FormatDate(d) ==
  IF d <= 1 THEN "2024-02-" \o ToString(28 + d)
  ELSE IF d <= 10 THEN "2024-03-0" \o ToString(d - 1)
  ELSE "2024-03-" \o ToString(d - 1)

\* line 101
StatusMessage(success) == IF success THEN "Success" ELSE "Failed"

\* success computed with <= in place of ==.
SuccessAtMost(latest_version, expected_latest_version) ==
  latest_version <= expected_latest_version

\* line 163
Success(latest_version, expected_latest_version) ==
  latest_version = expected_latest_version

\* Lines 81-115.  latest_timestamp.date() raises AttributeError for a value
\* that is not a datetime.
FormatRowData(datastack, server, server_version, latest_version, expected_latest_version, latest_timestamp, current_day_, success) ==
  IF ~latest_timestamp.valid
  THEN [raised |-> TRUE, row |-> <<>>]
  ELSE LET style == GetStyleConfig(success)
       IN [raised |-> FALSE,
           row |-> << CreateStyledText(datastack, style),
                      CreateStyledText(server, style),
                      CreateStyledText(server_version, style),
                      CreateStyledText(ToString(expected_latest_version), style),
                      CreateStyledText(ToString(latest_version), style),
                      CreateStyledText(FormatDate(DateOf(latest_timestamp)), style),
                      CreateStyledText(ToString(DaysOld(current_day_, latest_timestamp)), style),
                      CreateStyledText(StatusMessage(success), style) >>]

\* Sequences over S of length at most n.
SeqUpTo(S, n) == UNION {[1..k -> S] : k \in 0..n}

Range(s) == {s[i] : i \in 1..Len(s)}

Distinct(s) == \A i, j \in 1..Len(s) : i # j => s[i] # s[j]

NoException == [where |-> "none", at |-> 0]

Init ==
  /\ SERVERS_TO_CHECK \in {s \in SeqUpTo(Servers, Cardinality(Servers)) : Distinct(s)}
  /\ DATASTACKS_TO_CHECK \in SeqUpTo(Names, MaxList)
  /\ now = 0
  /\ pc = "start"
  /\ current_day = 0
  /\ clock_reads = 0
  /\ listed = <<>>
  /\ datastacks_to_check = <<>>
  /\ idx = 1
  /\ checked = 0
  /\ result_table = <<>>
  /\ records = <<>>
  /\ outcomes = <<>>
  /\ response = NoResponse
  /\ ret = NoTuple
  /\ prev_table = <<>>
  /\ exception = NoException
  /\ printed = FALSE

\* The date changes while the audit runs.
Tick ==
  /\ pc \in {"start", "enumerate", "loop"}
  /\ now < MaxDay
  /\ now' = now + 1
  /\ UNCHANGED << config, pc, current_day, clock_reads, listed, datastacks_to_check,
                  loopVars, exception, printed >>

\* Lines 144-146: the reference date is read and the empty table is created.
MainStart ==
  /\ pc = "start"
  /\ current_day' = now
  /\ clock_reads' = clock_reads + 1
  /\ result_table' = <<>>
  /\ pc' = "enumerate"
  /\ UNCHANGED << config, now, listed, datastacks_to_check, idx, checked, records, outcomes,
                  response, ret, prev_table, exception, printed >>

\* get_datastacks_to_check returning the override as configured, unsorted.
GetDatastacksOverrideUnsorted ==
  /\ pc = "enumerate"
  /\ DATASTACKS_TO_CHECK # <<>>
  /\ datastacks_to_check' = DATASTACKS_TO_CHECK
  /\ pc' = "loop"
  /\ UNCHANGED << config, now, current_day, clock_reads, listed, loopVars,
                  exception, printed >>

\* Lines 138-139: a non-empty override is returned sorted.
GetDatastacksOverride ==
  /\ pc = "enumerate"
  /\ DATASTACKS_TO_CHECK # <<>>
  /\ datastacks_to_check' = Sorted(DATASTACKS_TO_CHECK)
  /\ pc' = "loop"
  /\ UNCHANGED << config, now, current_day, clock_reads, listed, loopVars,
                  exception, printed >>

\* What client.info.get_datastacks() can do: raise (as can the client
\* construction of line 135), or return a list of datastack names in any order.
ListingAnswers ==
  {Raised(<<>>)} \cup {Returned(l) : l \in {s \in SeqUpTo(Names, MaxList) : Distinct(s)}}

\* A datastack is hosted by one server: no server lists a name another server
\* listed.  (The same name twice in one run is covered by the override list.)
AlreadyListed == UNION {listed[k].names : k \in 1..Len(listed)}

\* get_datastacks_to_check sorting the whole list after each extend.
ListServerGlobalSort ==
  /\ pc = "enumerate"
  /\ DATASTACKS_TO_CHECK = <<>>
  /\ Len(listed) < Len(SERVERS_TO_CHECK)
  /\ LET server == SERVERS_TO_CHECK[Len(listed) + 1]
     IN \E answer \in ListingAnswers :
          /\ Range(answer.value) \cap AlreadyListed = {}
          /\ listed' = Append(listed, [server |-> server, ok |-> answer.ok,
                                       names |-> Range(answer.value)])
          /\ IF answer.ok
             THEN /\ datastacks_to_check' = Sorted(datastacks_to_check \o answer.value)
                  /\ UNCHANGED << pc, exception >>
             ELSE /\ pc' = "aborted"
                  /\ exception' = [where |-> "get_datastacks", at |-> Len(listed) + 1]
                  /\ UNCHANGED datastacks_to_check
  /\ UNCHANGED << config, now, current_day, clock_reads, loopVars, printed >>

\* get_datastacks_to_check catching a listing failure and going on to the
\* next server.
ListServerSkipsFailure ==
  /\ pc = "enumerate"
  /\ DATASTACKS_TO_CHECK = <<>>
  /\ Len(listed) < Len(SERVERS_TO_CHECK)
  /\ LET server == SERVERS_TO_CHECK[Len(listed) + 1]
     IN \E answer \in ListingAnswers :
          /\ Range(answer.value) \cap AlreadyListed = {}
          /\ listed' = Append(listed, [server |-> server, ok |-> answer.ok,
                                       names |-> Range(answer.value)])
          /\ datastacks_to_check' = datastacks_to_check \o Sorted(answer.value)
          /\ UNCHANGED << pc, exception >>
  /\ UNCHANGED << config, now, current_day, clock_reads, loopVars, printed >>

\* Lines 132-136, one iteration: the next server is asked for its datastacks.
\* The client construction or the listing may raise; nothing catches it, here
\* or in main.
ListServer ==
  /\ pc = "enumerate"
  /\ DATASTACKS_TO_CHECK = <<>>
  /\ Len(listed) < Len(SERVERS_TO_CHECK)
  /\ LET server == SERVERS_TO_CHECK[Len(listed) + 1]
     IN \E answer \in ListingAnswers :
          /\ Range(answer.value) \cap AlreadyListed = {}
          /\ listed' = Append(listed, [server |-> server, ok |-> answer.ok,
                                       names |-> Range(answer.value)])
          /\ IF answer.ok
             THEN /\ datastacks_to_check' = datastacks_to_check \o Sorted(answer.value)
                  /\ UNCHANGED << pc, exception >>
             ELSE /\ pc' = "aborted"
                  /\ exception' = [where |-> "get_datastacks", at |-> Len(listed) + 1]
                  /\ UNCHANGED datastacks_to_check
  /\ UNCHANGED << config, now, current_day, clock_reads, loopVars, printed >>

\* Line 137: every server was listed.
GetDatastacksReturn ==
  /\ pc = "enumerate"
  /\ DATASTACKS_TO_CHECK = <<>>
  /\ Len(listed) = Len(SERVERS_TO_CHECK)
  /\ pc' = "loop"
  /\ UNCHANGED << config, now, current_day, clock_reads, listed, datastacks_to_check,
                  loopVars, exception, printed >>

\* Lines 150-176, one iteration of the audit loop.  CAVEclient(datastack) is
\* built at line 47, before the try block: its exception leaves
\* check_materialization and main.  So does an exception of format_row_data.
CheckDatastack ==
  /\ pc = "loop"
  /\ idx <= Len(datastacks_to_check)
  /\ \E r \in Responses :
       LET datastack == datastacks_to_check[idx]
           t == CheckMaterialization(r)
           latest_version == t.latest_version[1]
           expected_latest_version == t.expected_latest_version[1]
           latest_timestamp == t.latest_timestamp[1]
           success == Success(latest_version, expected_latest_version)
           f == FormatRowData(datastack, t.server, t.server_version[1], latest_version,
                              expected_latest_version, latest_timestamp, current_day, success)
       IN /\ checked' = checked + 1
          /\ response' = r
          /\ prev_table' = result_table
          /\ IF ~r.client_ok
             THEN /\ pc' = "aborted"
                  /\ exception' = [where |-> "CAVEclient", at |-> idx]
                  /\ ret' = NoTuple
                  /\ UNCHANGED << idx, result_table, records, outcomes >>
             ELSE /\ ret' = t
                  /\ IF t.latest_version = None
                     THEN /\ idx' = idx + 1
                          /\ outcomes' = Append(outcomes, "Omitted")
                          /\ UNCHANGED << pc, exception, result_table, records >>
                     ELSE IF f.raised
                     THEN /\ pc' = "aborted"
                          /\ exception' = [where |-> "format_row_data", at |-> idx]
                          /\ UNCHANGED << idx, result_table, records, outcomes >>
                     ELSE /\ idx' = idx + 1
                          /\ outcomes' = Append(outcomes, "Record")
                          /\ result_table' = Append(result_table, f.row)
                          /\ records' = Append(records,
                               [at |-> idx,
                                latest_version |-> latest_version,
                                expected_latest_version |-> expected_latest_version,
                                date |-> DateOf(latest_timestamp),
                                days_old |-> DaysOld(current_day, latest_timestamp),
                                success |-> success])
                          /\ UNCHANGED << pc, exception >>
  /\ UNCHANGED << config, now, current_day, clock_reads, listed, datastacks_to_check,
                  printed >>

\* Lines 178-179: the loop is over and the table is printed.
PrintReport ==
  /\ pc = "loop"
  /\ idx > Len(datastacks_to_check)
  /\ printed' = TRUE
  /\ pc' = "done"
  /\ UNCHANGED << config, now, current_day, clock_reads, listed, datastacks_to_check,
                  loopVars, exception >>

Next ==
  \/ Tick
  \/ MainStart
  \/ GetDatastacksOverride
  \/ ListServer
  \/ GetDatastacksReturn
  \/ CheckDatastack
  \/ PrintReport

Spec == Init /\ [][Next]_vars

\* ------------------------------------------------------------------ properties
\* Text of column k of a row: 1 Datastack, 2 Server, 3 Server Version,
\* 4 Expected Version, 5 Latest Version, 6 Latest Timestamp, 7 Days Old, 8 Status.
Cell(row, k) == row[k].text

\* s is in non-decreasing lexicographic order.
IsLexSorted(s) == \A i, j \in 1..Len(s) : i < j => ~LexLess(s[j], s[i])

\* s and t hold the same elements the same number of times.
SameElements(s, t) ==
  /\ Len(s) = Len(t)
  /\ \A n \in Names :
       Cardinality({i \in 1..Len(s) : s[i] = n}) = Cardinality({i \in 1..Len(t) : t[i] = n})

\* The latest iteration built its client and a statement of the try block raised.
LatestFetchFailed == checked > 0 /\ response.client_ok /\ FailedStep(response) # "none"

\* The latest iteration got a value from each of the four fetches.
LatestFetched == checked > 0 /\ response.client_ok /\ FailedStep(response) = "none"

\* The latest iteration added a row.
LatestRecorded ==
  /\ LatestFetched
  /\ Len(outcomes) = checked
  /\ outcomes[checked] = "Record"

\* C1: when a fetch step of a datastack's check raises (get_versions,
\* get_versions(expired=True), get_timestamp, server_version, or max() of an
\* empty answer), check_materialization returns None for all four fetched
\* values together, the iteration adds no row and ends as Omitted without an
\* exception leaving the loop, the report stays shorter than the enumerated
\* list, and no row is ever added for an omitted position.
C1_FetchFailureOmitsDatastack ==
  /\ LatestFetchFailed =>
       /\ ret.latest_version = None
       /\ ret.expected_latest_version = None
       /\ ret.latest_timestamp = None
       /\ ret.server_version = None
       /\ result_table = prev_table
       /\ Len(outcomes) = checked
       /\ outcomes[checked] = "Omitted"
       /\ idx = checked + 1
       /\ pc \in {"loop", "done"}
       /\ exception = NoException
  /\ \A i \in 1..Len(outcomes) :
       outcomes[i] = "Omitted" =>
         /\ \A k \in 1..Len(records) : records[k].at # i
         /\ Len(result_table) < Len(datastacks_to_check)

C1_Witness ==
  /\ pc = "done"
  /\ printed
  /\ LatestFetchFailed
  /\ FailedStep(response) = "server_version"
  /\ Len(datastacks_to_check) = 3
  /\ Len(result_table) = 2

\* C2 (as claimed): an exception of CAVEclient(datastack) is caught like one of
\* the fetches: the datastack ends as Omitted and the loop goes on.
C2_ClientFailureIsCaught ==
  (checked > 0 /\ ~response.client_ok) =>
    /\ pc # "aborted"
    /\ Len(outcomes) = checked
    /\ outcomes[checked] = "Omitted"

\* C3: every row's Status is "Success" exactly when its latest version equals
\* its expected version, and "Failed" otherwise; the row shows these two
\* versions; and they are the greatest elements of the active and of the
\* expired-inclusive version sets fetched for the row's datastack.
C3_StatusIsVersionEquality ==
  /\ Len(records) = Len(result_table)
  /\ \A k \in 1..Len(result_table) :
       LET row == result_table[k]
           rec == records[k]
       IN /\ Cell(row, 8) \in {"Success", "Failed"}
          /\ (Cell(row, 8) = "Success") <=> (rec.latest_version = rec.expected_latest_version)
          /\ rec.success <=> (rec.latest_version = rec.expected_latest_version)
          /\ Cell(row, 4) = ToString(rec.expected_latest_version)
          /\ Cell(row, 5) = ToString(rec.latest_version)
          /\ \A c \in 1..8 : row[c].style = IF rec.success THEN "green" ELSE "bold red"
  /\ LatestRecorded =>
       LET rec == records[Len(records)]
       IN /\ rec.at = checked
          /\ rec.latest_version \in response.versions.value
          /\ \A v \in response.versions.value : v <= rec.latest_version
          /\ rec.expected_latest_version \in response.expired.value
          /\ \A v \in response.expired.value : v <= rec.expected_latest_version

C3_Witness ==
  /\ pc = "done"
  /\ Len(result_table) = 2
  /\ Cell(result_table[1], 8) = "Success"
  /\ Cell(result_table[2], 8) = "Failed"
  /\ LatestRecorded
  /\ response.versions.value = {1}
  /\ response.expired.value = {1, 2}

\* C4 (as claimed): no row has an expected version below its latest version,
\* whatever version sets the remote service returns.
C4_ExpectedNeverBelowLatest ==
  \A k \in 1..Len(records) :
    records[k].expected_latest_version >= records[k].latest_version

\* C4 (amended): a row whose expired-inclusive version set, as fetched, contains
\* its active version set has an expected version no smaller than its latest
\* version.
C4_ExpectedAtLeastLatestForSuperset ==
  (LatestRecorded /\ response.versions.value \subseteq response.expired.value) =>
    records[Len(records)].expected_latest_version >= records[Len(records)].latest_version

C4_Witness ==
  /\ LatestRecorded
  /\ response.versions.value = {1}
  /\ response.expired.value = {1, 2}
  /\ records[Len(records)].expected_latest_version = 2
  /\ records[Len(records)].latest_version = 1

\* C5 (as claimed): the rows are, in enumeration order, exactly the enumerated
\* datastacks whose check produced a record; every check_materialization call
\* ends as Record or Omitted; and once the loop has started the run reaches the
\* end of the sequence, every enumerated datastack checked exactly once.
C5_ReportIsOrderedSubsequence ==
  /\ Len(records) = Len(result_table)
  /\ \A k \in 1..Len(records) :
       /\ records[k].at \in 1..Len(outcomes)
       /\ outcomes[records[k].at] = "Record"
       /\ Cell(result_table[k], 1) = datastacks_to_check[records[k].at]
  /\ \A j, k \in 1..Len(records) : j < k => records[j].at < records[k].at
  /\ \A i \in 1..Len(outcomes) :
       outcomes[i] = "Record" => \E k \in 1..Len(records) : records[k].at = i
  /\ checked = Len(outcomes)
  /\ idx = checked + 1
  /\ pc = "aborted" => checked = 0
  /\ pc = "done" => checked = Len(datastacks_to_check)

\* C6: with a non-empty override list get_datastacks_to_check returns the
\* override's elements in lexicographic order, whatever servers are
\* configured, and no server is asked for its datastacks.
C6_OverrideSortedNoListing ==
  (DATASTACKS_TO_CHECK # <<>> /\ pc \in {"loop", "done", "aborted"}) =>
    /\ IsLexSorted(datastacks_to_check)
    /\ SameElements(datastacks_to_check, DATASTACKS_TO_CHECK)
    /\ listed = <<>>

C6_Witness ==
  /\ pc = "done"
  /\ DATASTACKS_TO_CHECK = << <<2>>, <<1, 2>> >>
  /\ datastacks_to_check = << <<1, 2>>, <<2>> >>
  /\ Len(SERVERS_TO_CHECK) = 2

\* Number of datastacks the first k listing calls returned.
RECURSIVE ListedBefore(_)
ListedBefore(k) ==
  IF k = 0 THEN 0 ELSE ListedBefore(k - 1) + Cardinality(listed[k].names)

\* C7: with an empty override list, once get_datastacks_to_check has returned,
\* each configured server was asked exactly once, in configured order, and the
\* result is the concatenation, in server order, of each server's datastacks
\* in lexicographic order: every datastack of a server precedes those of the
\* servers after it.
C7_PerServerSortedConcatenation ==
  (DATASTACKS_TO_CHECK = <<>> /\ (pc \in {"loop", "done"} \/ checked > 0)) =>
    /\ Len(listed) = Len(SERVERS_TO_CHECK)
    /\ \A k \in 1..Len(listed) : listed[k].server = SERVERS_TO_CHECK[k] /\ listed[k].ok
    /\ Len(datastacks_to_check) = ListedBefore(Len(listed))
    /\ \A k \in 1..Len(listed) :
         LET segment == SubSeq(datastacks_to_check, ListedBefore(k - 1) + 1, ListedBefore(k))
         IN /\ IsLexSorted(segment)
            /\ Range(segment) = listed[k].names

C7_Witness ==
  /\ pc = "done"
  /\ DATASTACKS_TO_CHECK = <<>>
  /\ Len(listed) = 2
  /\ listed[1].names = {<<2>>}
  /\ listed[2].names = {<<1>>, <<1, 2>>}
  /\ datastacks_to_check = << <<2>>, <<1>>, <<1, 2>> >>

\* C8: when the listing of a configured server fails, the exception ends the
\* run: that server is not asked again and no later server is asked, no
\* datastack check is ever started and the report is never printed, also when
\* servers before it were listed.
C8_ListingFailureIsFatal ==
  \A k \in 1..Len(listed) :
    ~listed[k].ok =>
      /\ pc = "aborted"
      /\ exception = [where |-> "get_datastacks", at |-> k]
      /\ Len(listed) = k
      /\ Cardinality({j \in 1..Len(listed) : listed[j].server = listed[k].server}) = 1
      /\ checked = 0
      /\ result_table = <<>>
      /\ ~printed

C8_Witness ==
  /\ Len(listed) = 2
  /\ listed[1].ok
  /\ Cardinality(listed[1].names) = 2
  /\ ~listed[2].ok
  /\ pc = "aborted"

\* C9: the clock is read exactly once, by the first step of main, before any
\* listing and any check; every row's Days Old is that reference date minus
\* the date of the row's timestamp, also when the date changed during the run;
\* it is non-negative when the timestamp's date is not after the reference
\* date and zero exactly when the two dates are equal.
C9_DaysOldAgainstOneReference ==
  /\ pc = "start" => (clock_reads = 0 /\ listed = <<>> /\ checked = 0)
  /\ pc # "start" => clock_reads = 1
  /\ \A k \in 1..Len(result_table) :
       LET rec == records[k]
       IN /\ rec.days_old = current_day - rec.date
          /\ Cell(result_table[k], 7) = ToString(rec.days_old)
          /\ rec.date <= current_day => rec.days_old >= 0
          /\ rec.days_old = 0 <=> rec.date = current_day
  /\ LatestRecorded => records[Len(records)].date = response.timestamp.value.date

C9_Witness ==
  /\ pc = "done"
  /\ current_day = 0
  /\ now = 1
  /\ Len(records) = 2
  /\ records[1].days_old = 0
  /\ Cell(result_table[1], 7) = "0"
  /\ records[2].days_old = -1
  /\ Cell(result_table[2], 7) = "-1"

\* C10 (as claimed): a check whose remote call raises, whose active or
\* expired-inclusive version set is empty, or whose timestamp is not a usable
\* datetime (raised or returned by get_timestamp) ends as Omitted: no row, no
\* exception leaving the loop.
C10_FailureKindsAllOmitted ==
  (/\ checked > 0
   /\ response.client_ok
   /\ \/ FailedStep(response) # "none"
      \/ ~response.timestamp.value.valid) =>
    /\ pc # "aborted"
    /\ exception = NoException
    /\ result_table = prev_table
    /\ Len(outcomes) = checked
    /\ outcomes[checked] = "Omitted"

====
